---------------------------- MODULE Spec2Model ----------------------------
(***************************************************************************)
(* The MPLS header codec of src/link/mpls.rs: MplsHeader (owned value) and *)
(* MplsHeaderSlice (borrowing view over 4 bytes).                          *)
(*                                                                         *)
(* Representation of machine values:                                       *)
(*   u8    a number in 0..255                                              *)
(*   u32   a record [hi, lo] of two 16-bit limbs (value = hi*2^16 + lo);   *)
(*         the model checker's integers are 32-bit signed, and from_bytes  *)
(*         produces labels up to 0xFFFF0F00                                *)
(*   [u8;4], &[u8]   sequences of u8 (index i of the code is i+1 here)     *)
(*   Result<T,E>     [tag |-> "Ok", kind, val] or [tag |-> "Err", kind, val]*)
(***************************************************************************)
EXTENDS Integers, Sequences, FiniteSets, TLC

(***************************************************************************)
(* Bounds of the exploration.                                              *)
(***************************************************************************)
\* longest chain of calls a caller makes (each call fed by the previous result)
MaxCalls == 3
\* most bytes that follow the 4 header bytes in a caller's buffer
MaxTail == 2

(***************************************************************************)
(* Machine arithmetic.                                                     *)
(***************************************************************************)
Pow2(n) == 2 ^ n

Byte == 0 .. 255

RECURSIVE BitAnd(_, _)
\* a & b
BitAnd(a, b) ==
    IF a = 0 \/ b = 0 THEN 0
    ELSE (a % 2) * (b % 2) + 2 * BitAnd(a \div 2, b \div 2)

RECURSIVE BitOr(_, _)
\* a | b
BitOr(a, b) ==
    IF a = 0 THEN b
    ELSE IF b = 0 THEN a
    ELSE (IF (a % 2) + (b % 2) > 0 THEN 1 ELSE 0) + 2 * BitOr(a \div 2, b \div 2)

\* a << n on u8: the bits shifted past bit 7 are dropped
Shl8(a, n) == (a * Pow2(n)) % 256

\* a >> n on u8
Shr8(a, n) == a \div Pow2(n)

\* the u32 of a number below 2^31
U32(n) == [hi |-> n \div 65536, lo |-> n % 65536]

\* u32::from_be_bytes([b0, b1, b2, b3]): b0 is the most significant byte
u32_from_be_bytes(b) == [hi |-> b[1] * 256 + b[2], lo |-> b[3] * 256 + b[4]]

\* u32::to_be_bytes(v): element 1 is the most significant byte
u32_to_be_bytes(v) == << v.hi \div 256, v.hi % 256, v.lo \div 256, v.lo % 256 >>

\* u8::from_be_bytes([b0])
u8_from_be_bytes(b) == b[1]

\* u8::to_be_bytes(v)
u8_to_be_bytes(v) == << v >>

\* a > b on u32
U32Gt(a, b) == a.hi > b.hi \/ (a.hi = b.hi /\ a.lo > b.lo)

(***************************************************************************)
(* Results.                                                                *)
(***************************************************************************)
Ok(kind, v) == [tag |-> "Ok", kind |-> kind, val |-> v]

Err(kind, e) == [tag |-> "Err", kind |-> kind, val |-> e]

IsOk(r) == r.tag = "Ok"

IsErr(r) == r.tag = "Err"

(***************************************************************************)
(* Errors of the crate that mpls.rs uses.                                  *)
(***************************************************************************)
\* ReadError::UnexpectedEndOfSlice(required_len)
UnexpectedEndOfSlice(n) == [error |-> "UnexpectedEndOfSlice", required |-> n]

\* the out-of-range value error: which field, and the offending value
ValueOutOfRange(field, value) == [error |-> "ValueOutOfRange", field |-> field, value |-> value]

\* max_check_u8(value, max, field): Err when value > max
max_check_u8(value, max, field) ==
    IF value > max THEN Err("ValueError", ValueOutOfRange(field, value))
    ELSE Ok("unit", << >>)

\* max_check_u32(value, max, field): Err when value > max
max_check_u32(value, max, field) ==
    IF U32Gt(value, max) THEN Err("ValueError", ValueOutOfRange(field, value))
    ELSE Ok("unit", << >>)

(***************************************************************************)
(* MplsHeader and MplsHeaderSlice.                                         *)
(***************************************************************************)
\* impl SerializedSize for MplsHeader
SERIALIZED_SIZE == 4

\* struct MplsHeader { label: u32, tc: u8, s: bool, ttl: u8 }
MplsHeader(label, tc, s, ttl) == [label |-> label, tc |-> tc, s |-> s, ttl |-> ttl]

\* std::slice::from_raw_parts(data.as_ptr(), len), for len <= data.len()
from_raw_parts(data, len) == SubSeq(data, 1, len)

\* slice.get_unchecked(i), for i < slice.len()
get_unchecked(slice, i) == slice[i + 1]

\* &slice[from ..]
slice_from(slice, from) == SubSeq(slice, from + 1, Len(slice))

\* a from_slice that binds the view to the whole buffer instead of its first
\* SERIALIZED_SIZE bytes
MplsHeaderSlice_from_slice_whole(slice) ==
    IF Len(slice) < SERIALIZED_SIZE
    THEN Err("ReadError", UnexpectedEndOfSlice(SERIALIZED_SIZE))
    ELSE Ok("view", [slice |-> from_raw_parts(slice, Len(slice))])

\* MplsHeaderSlice::from_slice
MplsHeaderSlice_from_slice(slice) ==
    IF Len(slice) < SERIALIZED_SIZE
    THEN Err("ReadError", UnexpectedEndOfSlice(SERIALIZED_SIZE))
    ELSE Ok("view", [slice |-> from_raw_parts(slice, SERIALIZED_SIZE)])

\* MplsHeaderSlice::label
MplsHeaderSlice_label(self) ==
    u32_from_be_bytes(<< 0,
                         BitAnd(get_unchecked(self.slice, 2), 15),
                         get_unchecked(self.slice, 1),
                         get_unchecked(self.slice, 0) >>)

\* a tc that shifts byte 2 right by 4 without clearing the flag in bit 7
MplsHeaderSlice_tc_unmasked(self) == Shr8(get_unchecked(self.slice, 2), 4)

\* MplsHeaderSlice::tc
MplsHeaderSlice_tc(self) == Shr8(Shl8(get_unchecked(self.slice, 2), 1), 5)

\* MplsHeaderSlice::s
MplsHeaderSlice_s(self) == 0 # BitAnd(get_unchecked(self.slice, 2), 128)

\* MplsHeaderSlice::ttl
MplsHeaderSlice_ttl(self) == get_unchecked(self.slice, 3)

\* MplsHeaderSlice::to_header
MplsHeaderSlice_to_header(self) ==
    MplsHeader(MplsHeaderSlice_label(self),
               MplsHeaderSlice_tc(self),
               MplsHeaderSlice_s(self),
               MplsHeaderSlice_ttl(self))

\* MplsHeader::from_slice
MplsHeader_from_slice(slice) ==
    LET view == MplsHeaderSlice_from_slice(slice) IN
    IF IsErr(view) THEN view
    ELSE Ok("pair", [header |-> MplsHeaderSlice_to_header(view.val),
                     rest   |-> slice_from(slice, SERIALIZED_SIZE)])

\* MplsHeader::from_bytes
MplsHeader_from_bytes(bytes) ==
    MplsHeader(u32_from_be_bytes(<< bytes[1],
                                    bytes[2],
                                    BitAnd(Shr8(bytes[3], 4), 15),
                                    0 >>),
               BitAnd(Shr8(bytes[3], 4), 7),
               0 # BitAnd(bytes[3], 17),
               u8_from_be_bytes(<< bytes[4] >>))

\* a to_bytes that checks the label before the tc
MplsHeader_to_bytes_label_first(self) ==
    LET tc_check    == max_check_u8(self.tc, 7, "MplsTc")
        label_check == max_check_u32(self.label, U32(1048575), "MplsLabel")
        label_be    == u32_to_be_bytes(self.label)
        tc_be       == u8_to_be_bytes(self.tc)
        ttl_be      == u8_to_be_bytes(self.ttl)
    IN  IF IsErr(label_check) THEN label_check
        ELSE IF IsErr(tc_check) THEN tc_check
        ELSE Ok("bytes",
                << label_be[4],
                   label_be[3],
                   BitOr(IF self.s THEN BitOr(label_be[2], 128) ELSE label_be[2],
                         Shl8(tc_be[1], 4)),
                   ttl_be[1] >>)

\* MplsHeader::to_bytes
MplsHeader_to_bytes(self) ==
    LET tc_check    == max_check_u8(self.tc, 7, "MplsTc")
        label_check == max_check_u32(self.label, U32(1048575), "MplsLabel")
        label_be    == u32_to_be_bytes(self.label)
        tc_be       == u8_to_be_bytes(self.tc)
        ttl_be      == u8_to_be_bytes(self.ttl)
    IN  IF IsErr(tc_check) THEN tc_check
        ELSE IF IsErr(label_check) THEN label_check
        ELSE Ok("bytes",
                << label_be[4],
                   label_be[3],
                   BitOr(IF self.s THEN BitOr(label_be[2], 128) ELSE label_be[2],
                         Shl8(tc_be[1], 4)),
                   ttl_be[1] >>)

(***************************************************************************)
(* Streams: the io::Write and io::Read + io::Seek objects a caller passes. *)
(* A writer records the bytes handed to it (offered) and the bytes it took *)
(* (received).  A reader is its data and the position of the next byte.    *)
(***************************************************************************)
\* io::Error
io_Error(kind) == [error |-> "io::Error", kind |-> kind]

\* writer.write_all(data): the writer takes `accept` bytes and then fails;
\* with accept >= data.len() the whole of data is written
write_all(writer, data, accept) ==
    IF accept >= Len(data)
    THEN [ret    |-> Ok("unit", << >>),
          writer |-> [offered  |-> writer.offered \o data,
                      received |-> writer.received \o data]]
    ELSE [ret    |-> Err("io::Error", io_Error("WriteFailed")),
          writer |-> [offered  |-> writer.offered \o data,
                      received |-> writer.received \o SubSeq(data, 1, accept)]]

\* reader.read_exact(&mut buffer) for a buffer of n bytes: short data is an
\* error that leaves the reader at position `stop`
read_exact(reader, n, stop) ==
    IF Len(reader.data) - reader.pos >= n
    THEN [ret    |-> Ok("bytes", SubSeq(reader.data, reader.pos + 1, reader.pos + n)),
          reader |-> [data |-> reader.data, pos |-> reader.pos + n]]
    ELSE [ret    |-> Err("io::Error", io_Error("UnexpectedEof")),
          reader |-> [data |-> reader.data, pos |-> stop]]

\* MplsHeader::read
MplsHeader_read(reader, stop) ==
    LET filled == read_exact(reader, SERIALIZED_SIZE, stop) IN
    IF IsErr(filled.ret) THEN filled
    ELSE [ret    |-> Ok("header", MplsHeaderSlice_to_header([slice |-> filled.ret.val])),
          reader |-> filled.reader]

\* a write that hands the writer a zeroed array when the header is out of
\* range, and reports the value error afterwards
MplsHeader_write_before_check(self, writer, accept) ==
    LET bytes == MplsHeader_to_bytes(self)
        w     == write_all(writer, IF IsErr(bytes) THEN << 0, 0, 0, 0 >> ELSE bytes.val, accept)
    IN  IF IsErr(bytes)
        THEN [ret    |-> Err("WriteError", [error |-> "ValueError", source |-> bytes.val]),
              writer |-> w.writer]
        ELSE IF IsErr(w.ret)
        THEN [ret    |-> Err("WriteError", [error |-> "IoError", source |-> w.ret.val]),
              writer |-> w.writer]
        ELSE [ret |-> Ok("unit", << >>), writer |-> w.writer]

\* MplsHeader::write
MplsHeader_write(self, writer, accept) ==
    LET bytes == MplsHeader_to_bytes(self) IN
    IF IsErr(bytes)
    THEN [ret    |-> Err("WriteError", [error |-> "ValueError", source |-> bytes.val]),
          writer |-> writer]
    ELSE LET w == write_all(writer, bytes.val, accept) IN
         IF IsErr(w.ret)
         THEN [ret    |-> Err("WriteError", [error |-> "IoError", source |-> w.ret.val]),
               writer |-> w.writer]
         ELSE [ret |-> Ok("unit", << >>), writer |-> w.writer]

(***************************************************************************)
(* The values callers start from.                                          *)
(***************************************************************************)
\* bytes 0, 1 and 3 of an input, as << b0, b1, b3 >>: all zero, the bytes of
\* the vector [0x00, 0x10, _, 0xFF], three distinct bytes, a low bit and a
\* high bit, and all ones
OuterBytes == { << 0, 0, 0 >>, << 0, 16, 255 >>, << 165, 60, 126 >>,
                << 1, 128, 1 >>, << 255, 255, 255 >> }

\* byte 2 of an input: every value (it carries the packed sub-byte fields)
PackedBytes == Byte

\* [u8;4] inputs
Arrays == { << o[1], o[2], b2, o[3] >> : o \in OuterBytes, b2 \in PackedBytes }

\* the n bytes that follow a header in a buffer (pairwise distinct)
TailBytes(n) == [i \in 1 .. n |-> (90 + 105 * (i - 1)) % 256]

\* &[u8] inputs: every array followed by 0..MaxTail bytes, and every cut of
\* an array to fewer than 4 bytes
Buffers ==
    { a \o TailBytes(n) : a \in Arrays, n \in 0 .. MaxTail }
    \cup { SubSeq(a, 1, n) : a \in Arrays, n \in 0 .. SERIALIZED_SIZE - 1 }

\* u32 label inputs: in range, the largest in range, the first out of range,
\* and the largest u32
Labels == { U32(0), U32(1), U32(74565), U32(678159), U32(1048575),
            U32(1048576), [hi |-> 65535, lo |-> 65535] }

\* u8 tc inputs
Tcs == { 0, 1, 5, 7, 8, 255 }

\* u8 ttl inputs
Ttls == { 0, 1, 255 }

\* MplsHeader inputs (struct literals of the caller)
Headers == { MplsHeader(l, t, s, ttl) : l \in Labels, t \in Tcs, s \in BOOLEAN, ttl \in Ttls }

(***************************************************************************)
(* The state: the calls a caller has made, each with its argument and what *)
(* it returned, and the caller's writer and reader.                        *)
(***************************************************************************)
VARIABLES hist, writer, reader

vars == << hist, writer, reader >>

Call(op, arg, ret) == [op |-> op, arg |-> arg, ret |-> ret]

Init ==
    /\ hist = << >>
    /\ writer = [offered |-> << >>, received |-> << >>]
    /\ reader = [data |-> << >>, pos |-> 0]

Last == hist[Len(hist)]

CanCall == Len(hist) < MaxCalls

\* what the next call may be given: a fresh input on the first call, the
\* value the previous call returned afterwards
LastOk(kind) == hist # << >> /\ IsOk(Last.ret) /\ Last.ret.kind = kind

HeaderArgs ==
    IF hist = << >> THEN Headers
    ELSE IF LastOk("header") THEN { Last.ret.val }
    ELSE IF LastOk("pair") THEN { Last.ret.val.header }
    ELSE { }

ArrayArgs ==
    IF hist = << >> THEN Arrays
    ELSE IF LastOk("bytes") THEN { Last.ret.val }
    ELSE { }

SliceArgs ==
    IF hist = << >> THEN Buffers
    ELSE IF LastOk("bytes") THEN { Last.ret.val }
    ELSE { }

ViewArgs == IF LastOk("view") THEN { Last.ret.val } ELSE { }

\* a call that touches neither stream
Pure(op, arg, ret) ==
    /\ hist' = Append(hist, Call(op, arg, ret))
    /\ UNCHANGED << writer, reader >>

FromSlice ==
    /\ CanCall
    /\ \E slice \in SliceArgs :
          Pure("MplsHeader::from_slice", slice, MplsHeader_from_slice(slice))

FromBytes ==
    /\ CanCall
    /\ \E bytes \in ArrayArgs :
          Pure("MplsHeader::from_bytes", bytes, Ok("header", MplsHeader_from_bytes(bytes)))

Read ==
    /\ CanCall
    /\ \E data \in SliceArgs, stop \in 0 .. SERIALIZED_SIZE - 1 :
          LET r == MplsHeader_read([data |-> data, pos |-> 0], stop) IN
          /\ stop <= Len(data)
          /\ hist' = Append(hist, Call("MplsHeader::read", data, r.ret))
          /\ reader' = r.reader
          /\ UNCHANGED writer

Write ==
    /\ CanCall
    /\ \E self \in HeaderArgs, accept \in 0 .. SERIALIZED_SIZE :
          LET w == MplsHeader_write(self, writer, accept) IN
          /\ hist' = Append(hist, Call("MplsHeader::write", self, w.ret))
          /\ writer' = w.writer
          /\ UNCHANGED reader

ToBytes ==
    /\ CanCall
    /\ \E self \in HeaderArgs :
          Pure("MplsHeader::to_bytes", self, MplsHeader_to_bytes(self))

SliceFromSlice ==
    /\ CanCall
    /\ \E slice \in SliceArgs :
          Pure("MplsHeaderSlice::from_slice", slice, MplsHeaderSlice_from_slice(slice))

Label ==
    /\ CanCall
    /\ \E self \in ViewArgs :
          Pure("MplsHeaderSlice::label", self, Ok("u32", MplsHeaderSlice_label(self)))

Tc ==
    /\ CanCall
    /\ \E self \in ViewArgs :
          Pure("MplsHeaderSlice::tc", self, Ok("u8", MplsHeaderSlice_tc(self)))

S ==
    /\ CanCall
    /\ \E self \in ViewArgs :
          Pure("MplsHeaderSlice::s", self, Ok("bool", MplsHeaderSlice_s(self)))

Ttl ==
    /\ CanCall
    /\ \E self \in ViewArgs :
          Pure("MplsHeaderSlice::ttl", self, Ok("u8", MplsHeaderSlice_ttl(self)))

ToHeader ==
    /\ CanCall
    /\ \E self \in ViewArgs :
          Pure("MplsHeaderSlice::to_header", self, Ok("header", MplsHeaderSlice_to_header(self)))

Next ==
    \/ FromSlice
    \/ FromBytes
    \/ Read
    \/ Write
    \/ ToBytes
    \/ SliceFromSlice
    \/ Label
    \/ Tc
    \/ S
    \/ Ttl
    \/ ToHeader

Spec == Init /\ [][Next]_vars

(***************************************************************************)
(* Vocabulary of the properties.                                           *)
(***************************************************************************)
\* the number a u32 stands for, for a u32 below 2^31
U32Value(v) == v.hi * 65536 + v.lo

\* label <= 0xFFFFF and tc <= 7
InRange(h) == h.label.hi <= 15 /\ h.tc <= 7

\* the i-th call was `op`
Called(i, op) == i \in 1 .. Len(hist) /\ hist[i].op = op

\* the header a decode call returned
DecodedHeader(c) == IF c.ret.kind = "pair" THEN c.ret.val.header ELSE c.ret.val

DecodeOps == { "MplsHeader::from_bytes", "MplsHeader::from_slice",
               "MplsHeader::read", "MplsHeaderSlice::to_header" }

\* the first 4 bytes of a buffer
Window(b) == SubSeq(b, 1, 4)

\* the 4 bytes of the standard layout: label in bits 31..12, tc in bits 11..9,
\* the bottom-of-stack flag in bit 8, ttl in bits 7..0
StandardBytes(h) ==
    LET label == U32Value(h.label) IN
    << (label \div 4096) % 256,
       (label \div 16) % 256,
       (label % 16) * 16 + h.tc * 2 + (IF h.s THEN 1 ELSE 0),
       h.ttl >>

\* the header the standard layout reads from 4 bytes
StandardHeader(b) ==
    MplsHeader(U32(b[1] * 4096 + b[2] * 16 + (b[3] \div 16)),
               (b[3] \div 2) % 8,
               b[3] % 2 = 1,
               b[4])

(***************************************************************************)
(* C1.  Round trip, value first: every header with label <= 0xFFFFF and    *)
(* tc <= 7 is encoded by to_bytes without error, and from_bytes of the     *)
(* 4 bytes returns a header equal to it in all four fields.                *)
(* The code does not satisfy it: to_bytes and from_bytes use different     *)
(* layouts.                                                                *)
(***************************************************************************)
C1_RoundTripValueFirst ==
    \A i \in 1 .. Len(hist) :
        (Called(i, "MplsHeader::to_bytes") /\ InRange(hist[i].arg))
        => /\ IsOk(hist[i].ret)
           /\ Called(i + 1, "MplsHeader::from_bytes")
                => hist[i + 1].ret.val = hist[i].arg

(***************************************************************************)
(* C2.  Round trip, wire first: for every 4-byte array b,                  *)
(* to_bytes(from_bytes(b)) is Ok and its 4 bytes equal b.                  *)
(* The code does not satisfy it.                                           *)
(***************************************************************************)
C2_RoundTripWireFirst ==
    \A i \in 1 .. Len(hist) :
        (Called(i, "MplsHeader::from_bytes") /\ Called(i + 1, "MplsHeader::to_bytes"))
        => /\ IsOk(hist[i + 1].ret)
           /\ hist[i + 1].ret.val = hist[i].arg

(***************************************************************************)
(* C3.  View/value consistency: for every buffer b of at least 4 bytes the *)
(* accessors label(), tc(), s(), ttl() and to_header() of the view         *)
(* MplsHeaderSlice::from_slice(b), and the header of                       *)
(* MplsHeader::from_slice(b), equal the fields of from_bytes applied to    *)
(* the first 4 bytes of b.                                                 *)
(* The code does not satisfy it.                                           *)
(***************************************************************************)
C3_ViewValueConsistency ==
    /\ \A i \in 1 .. Len(hist) :
          (Called(i, "MplsHeaderSlice::from_slice") /\ IsOk(hist[i].ret) /\ i < Len(hist))
          => LET value == MplsHeader_from_bytes(Window(hist[i].arg))
                 next  == hist[i + 1]
             IN  /\ next.op = "MplsHeaderSlice::label" => next.ret.val = value.label
                 /\ next.op = "MplsHeaderSlice::tc" => next.ret.val = value.tc
                 /\ next.op = "MplsHeaderSlice::s" => next.ret.val = value.s
                 /\ next.op = "MplsHeaderSlice::ttl" => next.ret.val = value.ttl
                 /\ next.op = "MplsHeaderSlice::to_header" => next.ret.val = value
    /\ \A i \in 1 .. Len(hist) :
          (Called(i, "MplsHeader::from_slice") /\ IsOk(hist[i].ret))
          => hist[i].ret.val.header = MplsHeader_from_bytes(Window(hist[i].arg))

(***************************************************************************)
(* C4.  Decode bit layout: from_bytes([b0,b1,b2,b3]) yields                *)
(* label = b0*2^12 + b1*2^4 + (b2 >> 4), tc = (b2 >> 1) & 7,               *)
(* s = ((b2 & 1) != 0) and ttl = b3.                                       *)
(* The code does not satisfy it.                                           *)
(***************************************************************************)
C4_DecodeBitLayout ==
    \A i \in 1 .. Len(hist) :
        Called(i, "MplsHeader::from_bytes")
        => hist[i].ret = Ok("header", StandardHeader(hist[i].arg))

(***************************************************************************)
(* C5.  Encode bit layout: for every header with label <= 0xFFFFF and      *)
(* tc <= 7, to_bytes returns b0 = label bits 19..12, b1 = label bits 11..4,*)
(* b2 = (label bits 3..0) << 4 | tc << 1 | s, b3 = ttl.                    *)
(* The code does not satisfy it.                                           *)
(***************************************************************************)
C5_EncodeBitLayout ==
    \A i \in 1 .. Len(hist) :
        (Called(i, "MplsHeader::to_bytes") /\ InRange(hist[i].arg))
        => hist[i].ret = Ok("bytes", StandardBytes(hist[i].arg))

(***************************************************************************)
(* C6.  Decoded headers are in range: every header returned by from_bytes, *)
(* MplsHeader::from_slice, MplsHeaderSlice::to_header or MplsHeader::read  *)
(* has label <= 0xFFFFF and tc <= 7.                                       *)
(* The code does not satisfy it: from_bytes returns labels above 0xFFFFF.  *)
(***************************************************************************)
C6_DecodedInRange ==
    \A i \in 1 .. Len(hist) :
        (hist[i].op \in DecodeOps /\ IsOk(hist[i].ret))
        => InRange(DecodedHeader(hist[i]))

(***************************************************************************)
(* C7.  Range rejection: to_bytes returns the out-of-range value error     *)
(* exactly when label > 0xFFFFF or tc > 7 and Ok with 4 bytes otherwise;   *)
(* the error names the tc field and its value when tc > 7 (also when the   *)
(* label is out of range too), the label field and its value when only the *)
(* label is out of range; an error carries no bytes.                       *)
(***************************************************************************)
C7_RangeRejection ==
    \A i \in 1 .. Len(hist) :
        Called(i, "MplsHeader::to_bytes")
        => LET h == hist[i].arg
               r == hist[i].ret
           IN  /\ IsErr(r) <=> (h.label.hi > 15 \/ h.tc > 7)
               /\ IsOk(r) => (r.kind = "bytes" /\ Len(r.val) = 4)
               /\ h.tc > 7
                    => r = Err("ValueError", ValueOutOfRange("MplsTc", h.tc))
               /\ (h.tc <= 7 /\ h.label.hi > 15)
                    => r = Err("ValueError", ValueOutOfRange("MplsLabel", h.label))

\* to_bytes was given a header with both fields out of range
C7_Witness ==
    /\ Called(1, "MplsHeader::to_bytes")
    /\ hist[1].arg.tc = 8
    /\ hist[1].arg.label = U32(1048576)
    /\ IsErr(hist[1].ret)

(***************************************************************************)
(* C8.  Truncation and remainder: on a buffer of 0..3 bytes both           *)
(* from_slice functions fail with the unexpected-end-of-slice error that   *)
(* reports 4; on a buffer of n >= 4 bytes MplsHeader::from_slice returns   *)
(* as remainder bytes 4..n of the input (n-4 bytes), the view of           *)
(* MplsHeaderSlice::from_slice is bytes 0..4 of the input (4 bytes), and   *)
(* the header is the one decoded from the first 4 bytes alone.             *)
(***************************************************************************)
C8_TruncationAndRemainder ==
    \A i \in 1 .. Len(hist) :
        LET b == hist[i].arg
            r == hist[i].ret
            n == Len(b)
        IN  /\ Called(i, "MplsHeader::from_slice")
                 => IF n < 4
                    THEN r = Err("ReadError", UnexpectedEndOfSlice(4))
                    ELSE /\ IsOk(r)
                         /\ Len(r.val.rest) = n - 4
                         /\ \A k \in 1 .. n - 4 : r.val.rest[k] = b[4 + k]
                         /\ r.val.header = MplsHeader_from_slice(Window(b)).val.header
            /\ Called(i, "MplsHeaderSlice::from_slice")
                 => IF n < 4
                    THEN r = Err("ReadError", UnexpectedEndOfSlice(4))
                    ELSE /\ IsOk(r)
                         /\ Len(r.val.slice) = 4
                         /\ \A k \in 1 .. 4 : r.val.slice[k] = b[k]

\* a view was made of a buffer with bytes after the header, and a header
\* decoded from one
C8_Witness ==
    /\ hist # << >>
    /\ hist[1].op \in { "MplsHeader::from_slice", "MplsHeaderSlice::from_slice" }
    /\ Len(hist[1].arg) = 4 + MaxTail
    /\ IsOk(hist[1].ret)

(***************************************************************************)
(* C9.  Encode to stream emits no partial output: write validates before   *)
(* it writes.  With label > 0xFFFFF or tc > 7 it returns the value error   *)
(* and the writer is handed no byte; otherwise the writer is handed        *)
(* exactly the 4 bytes of to_bytes(h), in order, once, and a failure of    *)
(* the writer is the error returned.                                       *)
(***************************************************************************)
C9_WriteNoPartialOutput ==
    /\ (\A i \in 1 .. Len(hist) : hist[i].op # "MplsHeader::write")
          => writer.offered = << >>
    /\ \A i \in 1 .. Len(hist) :
          Called(i, "MplsHeader::write")
          => LET h == hist[i].arg
                 r == hist[i].ret
                 encoded == MplsHeader_to_bytes(h)
             IN  IF h.label.hi > 15 \/ h.tc > 7
                 THEN /\ r = Err("WriteError", [error |-> "ValueError", source |-> encoded.val])
                      /\ writer.offered = << >>
                      /\ writer.received = << >>
                 ELSE /\ writer.offered = encoded.val
                      /\ Len(writer.offered) = 4
                      /\ IsOk(r) => writer.received = encoded.val
                      /\ IsErr(r)
                           => /\ r.val.error = "IoError"
                              /\ r.val.source = io_Error("WriteFailed")
                              /\ Len(writer.received) < 4
                              /\ writer.received = SubSeq(encoded.val, 1, Len(writer.received))

\* write was given a header with tc out of range and returned the value error
C9_Witness ==
    /\ Called(1, "MplsHeader::write")
    /\ hist[1].arg.tc = 8
    /\ IsErr(hist[1].ret)
    /\ hist[1].ret.val.error = "ValueError"

(***************************************************************************)
(* C10.  The slice decode path and the encoder are mutually inverse: for   *)
(* every header h with label <= 0xFFFFF and tc <= 7,                       *)
(* MplsHeader::from_slice(to_bytes(h)) is (h, empty remainder); for every  *)
(* buffer b of at least 4 bytes,                                           *)
(* to_bytes(MplsHeaderSlice::from_slice(b).to_header()) is Ok with the     *)
(* first 4 bytes of b.                                                     *)
(***************************************************************************)
C10_SlicePathInverse ==
    /\ \A i \in 1 .. Len(hist) :
          (Called(i, "MplsHeader::to_bytes") /\ InRange(hist[i].arg))
          => /\ IsOk(hist[i].ret)
             /\ Called(i + 1, "MplsHeader::from_slice")
                  => hist[i + 1].ret = Ok("pair", [header |-> hist[i].arg, rest |-> << >>])
    /\ \A i \in 1 .. Len(hist) :
          ( /\ Called(i, "MplsHeaderSlice::from_slice")
            /\ Len(hist[i].arg) >= 4
            /\ Called(i + 1, "MplsHeaderSlice::to_header")
            /\ Called(i + 2, "MplsHeader::to_bytes") )
          => hist[i + 2].ret = Ok("bytes", Window(hist[i].arg))

\* a buffer with the flag bit, all tc bits and a label nibble set in byte 2,
\* and bytes after the header, went through view, to_header and to_bytes
C10_Witness ==
    /\ Called(1, "MplsHeaderSlice::from_slice")
    /\ Len(hist[1].arg) > 4
    /\ hist[1].arg[3] = 250
    /\ Called(2, "MplsHeaderSlice::to_header")
    /\ Called(3, "MplsHeader::to_bytes")

=============================================================================
